---- MODULE Spec2Model ----
(***************************************************************************)
(* A model of the dream pipeline (src/dream.py) and of its command model   *)
(* (src/dreamlib/commands.py).                                             *)
(*                                                                         *)
(* Strings are sequences of atoms.  An atom is one character (a digit, a   *)
(* space, a backslash, '#') or a word the program never looks inside       *)
(* ("GLOBAL:", "foo", ".png").  File names are strings too, and the output *)
(* folder is the set of the names of the files in it.                      *)
(***************************************************************************)
EXTENDS Integers, Sequences, FiniteSets, TLC

\* ------------------------------------------------------------------ bounds
\* physical lines the run reads from the script
MaxLines == 3
\* artifacts of an earlier run have indices 0 .. MaxPrior-1
MaxPrior == 2

\* ----------------------------------------------------------------- strings
None == <<>>

Digits == <<"0", "1", "2", "3", "4", "5", "6", "7", "8", "9">>

IsDigit(c) == \E d \in 1..10 : Digits[d] = c

DigitVal(c) == (CHOOSE d \in 1..10 : Digits[d] = c) - 1

Whitespace == {" ", "\n"}

RECURSIVE LStrip(_)
LStrip(s) == IF s # <<>> /\ Head(s) \in Whitespace THEN LStrip(Tail(s)) ELSE s

RECURSIVE RStrip(_)
RStrip(s) ==
    IF s # <<>> /\ s[Len(s)] \in Whitespace
    THEN RStrip(SubSeq(s, 1, Len(s) - 1))
    ELSE s

\* str.strip()
Strip(s) == RStrip(LStrip(s))

\* str.startswith, for a one-atom prefix
StartsWith(s, a) == s # <<>> /\ s[1] = a

\* str.endswith, for a one-atom suffix
EndsWith(s, a) == s # <<>> /\ s[Len(s)] = a

\* int(digits)
RECURSIVE ParseInt(_)
ParseInt(ds) ==
    IF ds = <<>> THEN 0
    ELSE 10 * ParseInt(SubSeq(ds, 1, Len(ds) - 1)) + DigitVal(ds[Len(ds)])

\* f"{n}" for a non-negative integer
RECURSIVE FormatInt(_)
FormatInt(n) ==
    IF n < 10 THEN <<Digits[n + 1]>>
    ELSE FormatInt(n \div 10) \o <<Digits[(n % 10) + 1]>>

\* the longest prefix of s made of digits: what \d+ consumes
RECURSIVE DigitPrefix(_)
DigitPrefix(s) ==
    IF s # <<>> /\ IsDigit(Head(s)) THEN <<Head(s)>> \o DigitPrefix(Tail(s))
    ELSE <<>>

\* the orders in which a set can be enumerated
RECURSIVE Perms(_)
Perms(S) ==
    IF S = {} THEN {<<>>}
    ELSE UNION {{<<x>> \o p : p \in Perms(S \ {x})} : x \in S}

\* sorted(pairs, key = first component): Python's sort is stable
RECURSIVE InsertByKey(_, _)
InsertByKey(sorted, p) ==
    IF sorted = <<>> THEN <<p>>
    ELSE IF p[1] < sorted[Len(sorted)][1]
         THEN InsertByKey(SubSeq(sorted, 1, Len(sorted) - 1), p)
                  \o <<sorted[Len(sorted)]>>
         ELSE sorted \o <<p>>

RECURSIVE SortedByKey(_)
SortedByKey(ps) ==
    IF ps = <<>> THEN <<>>
    ELSE InsertByKey(SortedByKey(SubSeq(ps, 1, Len(ps) - 1)), ps[Len(ps)])

\* bisect_right in the place of bisect_left
RECURSIVE BisectRight(_, _, _, _)
BisectRight(a, x, lo, hi) ==
    IF lo < hi
    THEN LET mid == (lo + hi) \div 2
         IN  IF x < a[mid + 1] THEN BisectRight(a, x, lo, mid)
             ELSE BisectRight(a, x, mid + 1, hi)
    ELSE lo

\* bisect.bisect_left(a, x, lo, hi) on a 0-based list
RECURSIVE BisectLeft(_, _, _, _)
BisectLeft(a, x, lo, hi) ==
    IF lo < hi
    THEN LET mid == (lo + hi) \div 2
         IN  IF a[mid + 1] < x THEN BisectLeft(a, x, mid + 1, hi)
             ELSE BisectLeft(a, x, lo, mid)
    ELSE lo

\* ------------------------------------------------------------- file names
OUTPUT_IMAGE_SUFFIX == ".png"
OUTPUT_VIDEO_SUFFIX == ".mp4"

\* output_folder.name
output_name == "out"

\* f"{output_name}{idx}{suffix}"
ArtifactName(idx, suffix) == <<output_name>> \o FormatInt(idx) \o <<suffix>>

\* f"{output_name}{OUTPUT_VIDEO_PATH.suffix}"
FinalName == <<output_name, OUTPUT_VIDEO_SUFFIX>>

\* output_path.stem + '.tmp' + output_path.suffix
TmpName == <<output_name, ".tmp", OUTPUT_VIDEO_SUFFIX>>

\* str(output_folder / name)
PathStr(name) == <<output_name, "/">> \o name

\* output_folder.glob(f"{output_name}*{suffix}")
Glob(files, suffix) ==
    {f \in files : Len(f) >= 2 /\ f[1] = output_name /\ f[Len(f)] = suffix}

\* re.compile(output_name + r'(?P<idx>\d+)' + suffix).match(name): the digits
\* of the idx group, or None.  match() anchors at the start of the name only.
ReMatch(name, suffix) ==
    IF name # <<>> /\ name[1] = output_name
    THEN LET ds == DigitPrefix(Tail(name))
         IN  IF ds # <<>> /\ Len(name) >= Len(ds) + 2
                /\ name[Len(ds) + 2] = suffix
             THEN ds
             ELSE None
    ELSE None

\* -------------------------------------------------------- find_prev_frame
\* get_file_index's None
NoIndex == -1

\* get_file_index(path)
get_file_index(name) ==
    IF ReMatch(name, OUTPUT_IMAGE_SUFFIX) # None
    THEN ParseInt(ReMatch(name, OUTPUT_IMAGE_SUFFIX))
    ELSE NoIndex

\* find_prev_frame(curr_idx, output_name, output_folder), img_paths being the
\* list the glob returned.  sorted() and bisect_left() compare the indices with
\* "<", which raises TypeError as soon as one of them is None.
find_prev_frame(curr_idx, img_paths) ==
    LET idxs == [i \in 1..Len(img_paths) |-> get_file_index(img_paths[i])]
        img_indices == SortedByKey([i \in 1..Len(idxs) |-> <<idxs[i]>>])
        this_frame_idx == BisectLeft([i \in 1..Len(img_indices) |-> img_indices[i][1]],
                                     curr_idx, 0, Len(img_indices))
    IN  IF \E i \in 1..Len(idxs) : idxs[i] = NoIndex
        THEN [raised |-> TRUE, path |-> None]
        ELSE IF this_frame_idx = 0
             THEN [raised |-> FALSE, path |-> None]
             ELSE [raised |-> FALSE,
                   path |-> ArtifactName(img_indices[this_frame_idx][1],
                                         OUTPUT_IMAGE_SUFFIX)]

\* ------------------------------------------------------------------- main
VARIABLES
    pc,             \* where main is: "start", "loop", "run", "concat", "mux", "done"
    force,          \* ns.force
    audio_path,     \* merge_videos's audio_path: "unset" before the call, then
                    \* "none" or "given"
    config,         \* toml.load(ns.config_path)
    folder_exists,  \* output_folder.exists()
    files,          \* the names of the files in output_folder
    lines,          \* the physical lines read from commands_fp so far
    cmd_root,       \* main's cmd_root
    args,           \* main's args
    img_dst,        \* main's img_dst
    invocations,    \* history: the generator invocations, in order
    created,        \* history: the artifact names this run copied into the folder
    manifest,       \* the lines written to the temporary manifest, in order
    manifest_exists,\* TRUE while the temporary manifest file exists
    ffmpeg_rets,    \* history: the exit codes of the ffmpeg calls, in order
    running,        \* the child processes that were started and have not ended
    scratch,        \* the step of the last generator that ended with 0, the one
                    \* that last wrote the two fixed-name files to their end;
                    \* NoIndex before
    holds,          \* history: for each name of created, the step whose output
                    \* was copied to it
    exit_code,      \* the exit status of the process, -1 while it runs
    raised          \* the exception that ended main, "none" otherwise

mainVars == <<pc, force, audio_path, config, folder_exists, files, lines,
              cmd_root, args, img_dst, invocations, created, manifest,
              manifest_exists, ffmpeg_rets, running, scratch, holds,
              exit_code, raised>>

\* the physical lines a script is made of
LinePool ==
    { <<"\n">>,
      <<" ", "#", "x", "\n">>,
      <<"GLOBAL:", " ", "--bar", "\n">>,
      <<"GLOBAL:", "--qux", "\n">>,
      <<"5", " ", "foo", "\n">>,
      <<"baz", "\n">>,
      <<"4", " ", "zap", " ", "\\", "\n">> }

\* the configuration document main loads
DefaultConfig ==
    [frame_rate |-> 30, width |-> 380, height |-> 640, save_every_freq |-> 3,
     has_extra |-> FALSE, extra_options |-> <<>>]

\* exit codes of an external process
RetCodes == {0, 1}

\* the image and the video of the steps in P
ArtifactsOf(P) ==
    {ArtifactName(i, OUTPUT_IMAGE_SUFFIX) : i \in P}
        \cup {ArtifactName(i, OUTPUT_VIDEO_SUFFIX) : i \in P}

\* what earlier runs can have left in the output folder: the artifacts of
\* some steps and, of a merge, nothing, the final output, or the final output
\* with the temporary file of an audio mux that failed
PriorFolders ==
    {ArtifactsOf(P) \cup F : P \in SUBSET (0..(MaxPrior - 1)),
                             F \in {{}, {FinalName}, {FinalName, TmpName}}}

\* the indices of the well-named image artifacts among fs
ImageIndices(fs) ==
    {ParseInt(ReMatch(f, OUTPUT_IMAGE_SUFFIX)) :
        f \in {g \in Glob(fs, OUTPUT_IMAGE_SUFFIX) :
                  ReMatch(g, OUTPUT_IMAGE_SUFFIX) # None}}

MainInit ==
    /\ pc = "start"
    /\ force \in BOOLEAN
    /\ audio_path = "unset"
    /\ config \in {DefaultConfig}
    /\ folder_exists \in BOOLEAN
    /\ files \in PriorFolders
    /\ ~folder_exists => files = {}
    /\ lines = <<>>
    /\ cmd_root = <<>>
    /\ args = <<>>
    /\ img_dst = None
    /\ invocations = <<>>
    /\ created = {}
    /\ manifest = <<>>
    /\ manifest_exists = FALSE
    /\ ffmpeg_rets = <<>>
    /\ running = {}
    /\ scratch = NoIndex
    /\ holds = <<>>
    /\ exit_code = -1
    /\ raised = "none"

\* main returns code
Return(code) ==
    /\ pc' = "done"
    /\ exit_code' = code
    /\ raised' = "none"

\* an exception leaves main: sys.exit is never reached, the interpreter prints
\* the traceback and exits with status 1
Raise(exc) ==
    /\ pc' = "done"
    /\ exit_code' = 1
    /\ raised' = exc

\* f"python {ns.generate_script_path} -vid "
cmd_base == <<"python", " ", "generate.py", " ", "-vid", " ">>

\* the child processes: the generator run for the line at idx, and the first
\* and the second ffmpeg call of merge_videos
Generator(idx) == [kind |-> "generator", step |-> idx]

Ffmpeg(n) == [kind |-> "ffmpeg", step |-> n]

\* subprocess.Popen and subprocess.run start the child p
Started(procs, p) == procs \cup {p}

\* the call returns while the child is still running
Detached(procs, p) == procs

\* run_cmd's loop ends only when process.poll() is not None, and
\* subprocess.run waits for the child: the call returns after p has ended
Waited(procs, p) == procs \ {p}

\* an existing folder used without the force flag
RefusedNever(exists, forced) == FALSE

\* lines 27-32: the run is refused
Refused(exists, forced) == exists /\ ~forced

\* lines 25-43: the output folder check, then the loop's initial state
CheckOutputFolder ==
    /\ pc = "start"
    /\ IF Refused(folder_exists, force)
       THEN /\ Return(1)
            /\ UNCHANGED <<folder_exists, cmd_root>>
       ELSE /\ folder_exists' = TRUE
            /\ cmd_root' = cmd_base
            /\ pc' = "loop"
            /\ UNCHANGED <<exit_code, raised>>
    /\ UNCHANGED <<force, audio_path, config, files, lines, args, img_dst,
                   invocations, created, manifest, manifest_exists, ffmpeg_rets,
                   running, scratch, holds>>

\* line.split("GLOBAL:")[1], for a line that starts with "GLOBAL:": what stands
\* between the first "GLOBAL:" and the next one (or the end of the line)
RECURSIVE UpTo(_, _)
UpTo(s, a) ==
    IF s = <<>> \/ Head(s) = a THEN <<>> ELSE <<Head(s)>> \o UpTo(Tail(s), a)

SplitGLOBAL(line) == UpTo(Tail(line), "GLOBAL:")

\* the GLOBAL: options appended to the standing ones
NewCmdRootMerged(root, line) ==
    IF StartsWith(line, "GLOBAL:") THEN root \o SplitGLOBAL(line) ELSE root

\* lines 49-51: cmd_root after the line
NewCmdRoot(root, line) ==
    IF StartsWith(line, "GLOBAL:") THEN cmd_base \o SplitGLOBAL(line) ELSE root

\* the folder scanned for every job
ResolveSeedRescan(dst, curr_idx, img_paths) == find_prev_frame(curr_idx, img_paths)

\* lines 57-61: img_dst when the job is about to run
ResolveSeed(dst, curr_idx, img_paths) ==
    IF dst = None THEN find_prev_frame(curr_idx, img_paths)
    ELSE [raised |-> FALSE, path |-> dst]

\* lines 62-64: args with the seed flag
WithSeed(a, dst) ==
    IF dst # None THEN a \o <<" ", "-ii", " ">> \o PathStr(dst) ELSE a

\* only the exit codes above 1 taken for failures
JobFailedAboveOne(ret) == ret > 1

\* line 70
JobFailed(ret) == ret # 0

\* the lines counted from 1
ImgDstOneBased(idx) == ArtifactName(idx + 1, OUTPUT_IMAGE_SUFFIX)

\* line 75 and line 76
ImgDst(idx) == ArtifactName(idx, OUTPUT_IMAGE_SUFFIX)

VidDst(idx) == ArtifactName(idx, OUTPUT_VIDEO_SUFFIX)

\* lines 45-68: one iteration of the loop, up to the call of run_cmd
ReadLine ==
    /\ pc = "loop"
    /\ Len(lines) < MaxLines
    /\ \E raw \in LinePool :
        LET idx == Len(lines)
            line == Strip(raw)
            root1 == NewCmdRoot(cmd_root, line)
            args1 == args \o <<" ">> \o line
        IN  /\ lines' = Append(lines, raw)
            /\ IF StartsWith(line, "#") \/ Len(line) = 0
               THEN UNCHANGED <<pc, cmd_root, args, img_dst, invocations,
                                running, exit_code, raised>>
               ELSE IF EndsWith(line, "\\")
               THEN /\ cmd_root' = root1
                    /\ args' = SubSeq(args1, 1, Len(args1) - 1)
                    /\ UNCHANGED <<pc, img_dst, invocations, running,
                                   exit_code, raised>>
               ELSE \E found \in {ResolveSeed(img_dst, idx, img_paths) :
                                   img_paths \in Perms(Glob(files, OUTPUT_IMAGE_SUFFIX))} :
                      LET args2 == WithSeed(args1, found.path)
                      IN  /\ cmd_root' = root1
                          /\ IF found.raised
                             THEN /\ Raise("TypeError")
                                  /\ args' = args1
                                  /\ UNCHANGED <<img_dst, invocations, running>>
                             ELSE /\ img_dst' = found.path
                                  /\ args' = args2
                                  /\ invocations' = Append(invocations,
                                        [idx |-> idx,
                                         cmd |-> root1 \o args2,
                                         root |-> root1,
                                         args |-> args1,
                                         seed |-> found.path,
                                         imgs |-> ImageIndices(files),
                                         ret |-> -1])
                                  /\ running' = Started(running, Generator(idx))
                                  /\ pc' = "run"
                                  /\ UNCHANGED <<exit_code, raised>>
    /\ UNCHANGED <<force, audio_path, config, folder_exists, files, created,
                   manifest, manifest_exists, ffmpeg_rets, scratch, holds>>

\* lines 68-82: the generator ends and run_cmd returns ret; the generator has
\* written its two fixed-name files when it ends with 0, and the two files are
\* then copied
GeneratorExit ==
    /\ pc = "run"
    /\ \E ret \in RetCodes :
        LET idx == Len(lines) - 1
        IN  /\ invocations' = [invocations EXCEPT ![Len(invocations)].ret = ret]
            /\ running' = Waited(running, Generator(idx))
            /\ IF JobFailed(ret)
               THEN /\ Return(2)
                    /\ UNCHANGED <<files, created, scratch, holds, img_dst, args>>
               ELSE /\ scratch' = idx
                    /\ img_dst' = ImgDst(idx)
                    /\ files' = files \cup {ImgDst(idx), VidDst(idx)}
                    /\ created' = created \cup {ImgDst(idx), VidDst(idx)}
                    /\ holds' = [n \in created \cup {ImgDst(idx), VidDst(idx)} |->
                                    IF n \in {ImgDst(idx), VidDst(idx)}
                                    THEN scratch' ELSE holds[n]]
                    /\ args' = <<>>
                    /\ pc' = "loop"
                    /\ UNCHANGED <<exit_code, raised>>
    /\ UNCHANGED <<force, audio_path, config, folder_exists, lines, cmd_root,
                   manifest, manifest_exists, ffmpeg_rets>>

\* line 90: sorted(clips, key = the integer the name's idx group holds); the
\* key of a clip the pattern does not match raises AttributeError
\* the clips ordered as strings: "10" before "2"
ClipKeyLexical(clip) ==
    LET ds == ReMatch(clip, OUTPUT_VIDEO_SUFFIX)
    IN  IF Len(ds) = 1 THEN 100 * DigitVal(ds[1])
        ELSE 100 * DigitVal(ds[1]) + DigitVal(ds[2]) + 1

ClipKey(clip) == ParseInt(ReMatch(clip, OUTPUT_VIDEO_SUFFIX))

SortClips(clips) ==
    IF \E i \in 1..Len(clips) : ReMatch(clips[i], OUTPUT_VIDEO_SUFFIX) = None
    THEN [raised |-> TRUE, clips |-> <<>>]
    ELSE LET keyed == SortedByKey([i \in 1..Len(clips) |->
                                      <<ClipKey(clips[i]), clips[i]>>])
         IN  [raised |-> FALSE, clips |-> [i \in 1..Len(keyed) |-> keyed[i][2]]]

\* line 127: the manifest line of a clip
ManifestLine(clip) == <<"file", " ">> \o PathStr(clip) \o <<"\n">>

\* lines 90 and 127: the manifest lines for the clips the glob listed
ManifestOf(clips) ==
    LET sorted == SortClips(clips)
    IN  [raised |-> sorted.raised,
         lines |-> [i \in 1..Len(sorted.clips) |-> ManifestLine(sorted.clips[i])]]

\* lines 84-94 and 117-160: the script is exhausted; the old final output is
\* deleted, the clips are listed and sorted, the manifest is written and the
\* concatenation is started
EndOfFile ==
    /\ pc = "loop"
    /\ LET files1 == files \ {FinalName}
       IN  /\ files' = files1
           /\ \E written \in {ManifestOf(clips) :
                                 clips \in Perms(Glob(files1, OUTPUT_VIDEO_SUFFIX))} :
                IF written.raised
                THEN /\ Raise("AttributeError")
                     /\ UNCHANGED <<manifest, manifest_exists, running>>
                ELSE /\ manifest' = written.lines
                     /\ manifest_exists' = TRUE
                     /\ running' = Started(running, Ffmpeg(1))
                     /\ pc' = "concat"
                     /\ UNCHANGED <<exit_code, raised>>
    /\ audio_path' \in {"none", "given"}
    /\ UNCHANGED <<force, config, folder_exists, lines, cmd_root, args, img_dst,
                   invocations, created, ffmpeg_rets, scratch, holds>>

\* lines 160-163 and 170-187: the concatenation ends.  check=True raises when
\* ffmpeg fails, and what ffmpeg then leaves at the output path is its own
\* business; when it succeeds the output is written, the manifest is deleted
\* and, with an audio file, the audio mux is started.  ffmpeg does not succeed
\* on a manifest that lists no clip
ConcatExit ==
    /\ pc = "concat"
    /\ \E ret \in RetCodes :
        /\ ret = 0 => manifest # <<>>
        /\ ffmpeg_rets' = Append(ffmpeg_rets, ret)
        /\ IF ret # 0
           THEN /\ \E partial \in BOOLEAN :
                     files' = IF partial THEN files \cup {FinalName} ELSE files
                /\ Raise("CalledProcessError")
                /\ running' = Waited(running, Ffmpeg(1))
                /\ UNCHANGED manifest_exists
           ELSE /\ files' = files \cup {FinalName}
                /\ manifest_exists' = FALSE
                /\ IF audio_path # "none"
                   THEN /\ running' = Started(Waited(running, Ffmpeg(1)), Ffmpeg(2))
                        /\ pc' = "mux"
                        /\ UNCHANGED <<exit_code, raised>>
                   ELSE /\ running' = Waited(running, Ffmpeg(1))
                        /\ Return(0)
    /\ UNCHANGED <<force, audio_path, config, folder_exists, lines, cmd_root,
                   args, img_dst, invocations, created, manifest, scratch, holds>>

\* lines 187-194: the audio mux ends.  A failure raises; a success replaces the
\* output by the temporary file ffmpeg wrote
MuxExit ==
    /\ pc = "mux"
    /\ \E ret \in RetCodes :
        /\ ffmpeg_rets' = Append(ffmpeg_rets, ret)
        /\ running' = Waited(running, Ffmpeg(2))
        /\ IF ret # 0
           THEN /\ \E partial \in BOOLEAN :
                     files' = IF partial THEN files \cup {TmpName} ELSE files
                /\ Raise("CalledProcessError")
           ELSE /\ LET written == files \cup {TmpName}
                       unlinked == written \ {FinalName}
                   IN  files' = (unlinked \ {TmpName}) \cup {FinalName}
                /\ Return(0)
    /\ UNCHANGED <<force, audio_path, config, folder_exists, lines, cmd_root,
                   args, img_dst, invocations, created, manifest,
                   manifest_exists, scratch, holds>>

\* ------------------- find_prev_frame and the clip listing on their own
VARIABLES
    fp_idx,         \* find_prev_frame's curr_idx
    fp_files,       \* the names of the files in the output folder
    fp_result,      \* what find_prev_frame returned, or NotCalled
    fp_manifest     \* the manifest written for the folder, or NotWritten

fpVars == <<fp_idx, fp_files, fp_result, fp_manifest>>

NotCalled == [raised |-> FALSE, path |-> <<"not called">>]

NotWritten == [raised |-> FALSE, lines |-> <<"not written">>]

\* step indices are 0 .. MaxStep
MaxStep == 10
\* at most MaxImages image artifacts exist
MaxImages == 3

FpIdle ==
    /\ fp_idx = 0
    /\ fp_files = {}
    /\ fp_result = NotCalled
    /\ fp_manifest = NotWritten

\* the folders that hold the artifacts of at most MaxImages steps
StepFolders ==
    {ArtifactsOf(P) : P \in {Q \in SUBSET (0..MaxStep) : Cardinality(Q) <= MaxImages}}

FpInit ==
    /\ fp_idx \in 0..MaxStep
    /\ fp_files \in StepFolders
    /\ fp_result = NotCalled
    /\ fp_manifest = NotWritten

\* the same folders, with what an earlier merge can have left in them
ClipsInit ==
    /\ fp_idx = 0
    /\ fp_files \in {fs \cup F : fs \in StepFolders, F \in SUBSET {FinalName, TmpName}}
    /\ fp_result = NotCalled
    /\ fp_manifest = NotWritten

\* lines 100-114, for one order of the glob's listing
CallFindPrevFrame ==
    /\ fp_result = NotCalled
    /\ fp_result' \in {find_prev_frame(fp_idx, img_paths) :
                          img_paths \in Perms(Glob(fp_files, OUTPUT_IMAGE_SUFFIX))}
    /\ UNCHANGED <<fp_idx, fp_files, fp_manifest>>

\* lines 85-90 and 125-129, for one order of the glob's listing
ListAndSortClips ==
    /\ fp_manifest = NotWritten
    /\ fp_files' = fp_files \ {FinalName}
    /\ fp_manifest' \in {ManifestOf(clips) :
                clips \in Perms(Glob(fp_files \ {FinalName}, OUTPUT_VIDEO_SUFFIX))}
    /\ UNCHANGED <<fp_idx, fp_result>>

\* files that are no artifact of the pipeline and that the globs list: copies
\* somebody kept of the image and of the clip of step 0
ForeignImage == <<output_name, "0", OUTPUT_IMAGE_SUFFIX, ".bak", OUTPUT_IMAGE_SUFFIX>>

ForeignClip == <<output_name, "0", OUTPUT_VIDEO_SUFFIX, ".bak", OUTPUT_VIDEO_SUFFIX>>

\* the folders of earlier runs, with what a merge or a user can have left there
ForeignInit ==
    /\ fp_idx \in 0..MaxPrior
    /\ fp_files \in {ArtifactsOf(P) \cup F :
                         P \in SUBSET (0..(MaxPrior - 1)),
                         F \in SUBSET {FinalName, TmpName, ForeignImage, ForeignClip}}
    /\ fp_result = NotCalled
    /\ fp_manifest = NotWritten

\* ------------------------------------------------- GenerateVideoCommand
\* f"python {GENERATE_SCRIPT_PATH} -vid"
CMD_BASE == <<"python", " ", "/repo/generate.py", " ", "-vid">>

\* the dataclass's field defaults
DefaultDimensions == <<380, 380>>

DefaultFrameRate == 30

DefaultSaveEveryFreq == 3

\* the text of s up to its first newline: what .* consumes
UpToNewline(s) == UpTo(s, "\n")

\* GenerateVideoCommand(cmd_string, video_len_s), __post_init__ included
NewCommand(cmd_string, video_len_s) ==
    [cmd_string |-> Strip(cmd_string),
     video_len_s |-> video_len_s,
     initial_frame_path |-> None,
     dimensions |-> DefaultDimensions,
     frame_rate |-> DefaultFrameRate,
     save_every_freq |-> DefaultSaveEveryFreq]

\* INPUT_LINE_RE.match(line) is not None
InputLineMatches(line) == DigitPrefix(line) # <<>>

\* from_input_line(line), for a line the pattern matches
from_input_line(line) ==
    LET video_len == DigitPrefix(line)
        cmd == UpToNewline(SubSeq(line, Len(video_len) + 1, Len(line)))
    IN  NewCommand(cmd, ParseInt(video_len))

\* the seed flag written whether or not a seed is set
StrSeedAlways(self) ==
    LET n_iterations == self.frame_rate * self.video_len_s * self.save_every_freq
    IN  CMD_BASE \o <<" ">> \o Strip(self.cmd_string)
            \o <<" ", "-i", " ">> \o FormatInt(n_iterations)
            \o <<" ", "-se", " ">> \o FormatInt(self.save_every_freq)
            \o <<" ", "-vl", " ">> \o FormatInt(self.video_len_s)
            \o <<" ", "-ii", " ">> \o self.initial_frame_path
            \o <<" ", "-s", " ">> \o FormatInt(self.dimensions[1])
            \o <<" ">> \o FormatInt(self.dimensions[2])

\* __str__
Str(self) ==
    LET n_iterations == self.frame_rate * self.video_len_s * self.save_every_freq
        string1 == CMD_BASE \o <<" ">> \o Strip(self.cmd_string)
        string2 == string1 \o <<" ", "-i", " ">> \o FormatInt(n_iterations)
        string3 == string2 \o <<" ", "-se", " ">> \o FormatInt(self.save_every_freq)
        string4 == string3 \o <<" ", "-vl", " ">> \o FormatInt(self.video_len_s)
        string5 == IF self.initial_frame_path # None
                   THEN string4 \o <<" ", "-ii", " ">> \o self.initial_frame_path
                   ELSE string4
    IN  string5 \o <<" ", "-s", " ">> \o FormatInt(self.dimensions[1])
                \o <<" ">> \o FormatInt(self.dimensions[2])

\* the fragment assigned ("=") where the code appends ("+=")
add_options_assign(self, cmd_string) ==
    IF Strip(cmd_string) # <<>>
    THEN [self EXCEPT !.cmd_string = <<" ">> \o Strip(cmd_string)]
    ELSE self

\* add_options(cmd_string)
add_options(self, cmd_string) ==
    IF Strip(cmd_string) # <<>>
    THEN [self EXCEPT !.cmd_string = @ \o <<" ">> \o Strip(cmd_string)]
    ELSE self

\* add_options_from_config(config)
add_options_from_config(self, cfg) ==
    LET set == [self EXCEPT !.frame_rate = cfg.frame_rate,
                            !.dimensions = <<cfg.width, cfg.height>>,
                            !.save_every_freq = cfg.save_every_freq]
    IN  IF cfg.has_extra THEN add_options(set, cfg.extra_options) ELSE set

VARIABLES
    job,            \* the GenerateVideoCommand instance, or NoJob
    rendered,       \* the last str(job): [job, string], or NotRendered
    calls,          \* how many methods were called on job
    cmd_raised,     \* the exception from_input_line raised, "none" otherwise
    input_line,     \* history: the line handed to from_input_line, or NoLine
    last_call       \* history: the last call that changed job, with its
                    \* argument and the job as it was before the call

cmdVars == <<job, rendered, calls, cmd_raised, input_line, last_call>>

NoJob == [cmd_string |-> <<"no job">>]

NoLine == <<"no line">>

\* the call of the method op on the job before, with the option fragment or
\* the configuration document it was given
Call(op, frag, cfg, before) ==
    [op |-> op, frag |-> frag, cfg |-> cfg, before |-> before]

NoCall == Call("none", <<>>, DefaultConfig, NoJob)

NotRendered == [job |-> NoJob, string |-> <<>>]

\* at most MaxCalls methods are called on a job
MaxCalls == 3

\* the lines handed to from_input_line
InputLines ==
    { <<"5", " ", "foo">>,
      <<"0", "5", " ", "foo", " ", "--x", " ", "\n">>,
      <<"1", "2">>,
      <<"foo">> }

\* the fragments handed to add_options
OptionPool ==
    { <<>>, <<" ">>, <<" ", "--bar", " ">>, <<"-q", " ", "7">> }

\* the configuration documents
Configs ==
    { DefaultConfig,
      [frame_rate |-> 2, width |-> 64, height |-> 48, save_every_freq |-> 1,
       has_extra |-> TRUE, extra_options |-> <<" ", "-p", " ">>] }

CmdIdle ==
    /\ job = NoJob
    /\ rendered = NotRendered
    /\ calls = 0
    /\ cmd_raised = "none"
    /\ input_line = NoLine
    /\ last_call = NoCall

\* lines 35-49
CmdFromInputLine ==
    /\ job = NoJob
    /\ cmd_raised = "none"
    /\ \E line \in InputLines :
          /\ input_line' = line
          /\ IF InputLineMatches(line)
             THEN job' = from_input_line(line) /\ UNCHANGED cmd_raised
             ELSE cmd_raised' = "InvalidCommandStringError" /\ UNCHANGED job
    /\ UNCHANGED <<rendered, calls, last_call>>

\* line 29: the seed frame is a public field, assigned by the caller
CmdSetInitialFrame ==
    /\ job # NoJob
    /\ calls < MaxCalls
    /\ \E idx \in 0..1 :
          job' = [job EXCEPT !.initial_frame_path =
                                 PathStr(ArtifactName(idx, OUTPUT_IMAGE_SUFFIX))]
    /\ last_call' = Call("initial_frame_path", <<>>, DefaultConfig, job)
    /\ calls' = calls + 1
    /\ UNCHANGED <<rendered, cmd_raised, input_line>>

\* lines 68-76
CmdAddOptions ==
    /\ job # NoJob
    /\ calls < MaxCalls
    /\ \E cmd_string \in OptionPool :
          /\ job' = add_options(job, cmd_string)
          /\ last_call' = Call("add_options", cmd_string, DefaultConfig, job)
    /\ calls' = calls + 1
    /\ UNCHANGED <<rendered, cmd_raised, input_line>>

\* lines 78-89
CmdAddOptionsFromConfig ==
    /\ job # NoJob
    /\ calls < MaxCalls
    /\ \E cfg \in Configs :
          /\ job' = add_options_from_config(job, cfg)
          /\ last_call' = Call("add_options_from_config", <<>>, cfg, job)
    /\ calls' = calls + 1
    /\ UNCHANGED <<rendered, cmd_raised, input_line>>

\* lines 51-66
CmdStr ==
    /\ job # NoJob
    /\ rendered' = [job |-> job, string |-> Str(job)]
    /\ UNCHANGED <<job, calls, cmd_raised, input_line, last_call>>

\* ------------------------------------------------------ specifications
vars == <<mainVars, fpVars, cmdVars>>

Init == MainInit /\ FpIdle /\ CmdIdle

Next ==
    \/ CheckOutputFolder /\ UNCHANGED <<fpVars, cmdVars>>
    \/ ReadLine /\ UNCHANGED <<fpVars, cmdVars>>
    \/ GeneratorExit /\ UNCHANGED <<fpVars, cmdVars>>
    \/ EndOfFile /\ UNCHANGED <<fpVars, cmdVars>>
    \/ ConcatExit /\ UNCHANGED <<fpVars, cmdVars>>
    \/ MuxExit /\ UNCHANGED <<fpVars, cmdVars>>

\* a run of main
Spec == Init /\ [][Next]_vars

MainIdle ==
    /\ pc = "done"
    /\ force = FALSE
    /\ audio_path = "unset"
    /\ config = DefaultConfig
    /\ folder_exists = FALSE
    /\ files = {}
    /\ lines = <<>>
    /\ cmd_root = <<>>
    /\ args = <<>>
    /\ img_dst = None
    /\ invocations = <<>>
    /\ created = {}
    /\ manifest = <<>>
    /\ manifest_exists = FALSE
    /\ ffmpeg_rets = <<>>
    /\ running = {}
    /\ scratch = NoIndex
    /\ holds = <<>>
    /\ exit_code = -1
    /\ raised = "none"

InitResolve == MainIdle /\ FpInit /\ CmdIdle

NextResolve == CallFindPrevFrame /\ UNCHANGED <<mainVars, cmdVars>>

\* find_prev_frame, for every step and every folder of StepFolders
SpecResolve == InitResolve /\ [][NextResolve]_vars

InitClips == MainIdle /\ ClipsInit /\ CmdIdle

NextClips == ListAndSortClips /\ UNCHANGED <<mainVars, cmdVars>>

\* the listing and sorting of the clips, for every folder of StepFolders
SpecClips == InitClips /\ [][NextClips]_vars

InitForeign == MainIdle /\ ForeignInit /\ CmdIdle

NextForeign ==
    \/ CallFindPrevFrame /\ UNCHANGED <<mainVars, cmdVars>>
    \/ ListAndSortClips /\ UNCHANGED <<mainVars, cmdVars>>

\* find_prev_frame and the listing of the clips, over folders that hold files
\* the pipeline did not name
SpecForeign == InitForeign /\ [][NextForeign]_vars

InitCmd == MainIdle /\ FpIdle /\ CmdIdle

NextCmd ==
    \/ CmdFromInputLine /\ UNCHANGED <<mainVars, fpVars>>
    \/ CmdSetInitialFrame /\ UNCHANGED <<mainVars, fpVars>>
    \/ CmdAddOptions /\ UNCHANGED <<mainVars, fpVars>>
    \/ CmdAddOptionsFromConfig /\ UNCHANGED <<mainVars, fpVars>>
    \/ CmdStr /\ UNCHANGED <<mainVars, fpVars>>

\* the life of one GenerateVideoCommand
SpecCmd == InitCmd /\ [][NextCmd]_vars

\* ----------------------------------------------------------- the claims
\* the physical line at 0-based position p, stripped
LineAt(p) == Strip(lines[p + 1])

IsBlankOrComment(line) == line = <<>> \/ line[1] = "#"

IsGlobalLine(line) == line # <<>> /\ line[1] = "GLOBAL:"

IsContinued(line) == line # <<>> /\ line[Len(line)] = "\\"

\* a line that completes a job: not blank, no comment, no GLOBAL: directive,
\* no continuation marker at its end
CompletesJob(line) ==
    ~IsBlankOrComment(line) /\ ~IsGlobalLine(line) /\ ~IsContinued(line)

Max(S) == CHOOSE m \in S : \A n \in S : n <= m

\* the index a well-named artifact carries in its name
IndexOf(name, suffix) == ParseInt(ReMatch(name, suffix))

SuffixOf(name) == name[Len(name)]

\* the image with the greatest index below idx among the indices imgs
GreatestBelow(imgs, idx) ==
    IF {i \in imgs : i < idx} = {} THEN None
    ELSE <<output_name>> \o FormatInt(Max({i \in imgs : i < idx}))
             \o <<OUTPUT_IMAGE_SUFFIX>>

\* main reached the merge, all of the script being read
ScriptDone == pc \in {"concat", "mux"} \/ (pc = "done" /\ audio_path # "unset")

\* C1: the generator is invoked exactly once per complete logical line that is
\* not blank, not a comment and not a GLOBAL: directive; such a line never
\* triggers an invocation nor gets an artifact at its own index
C1_OneInvocationPerJobLine ==
    /\ \A k \in 1..Len(invocations) : CompletesJob(LineAt(invocations[k].idx))
    /\ \A k1, k2 \in 1..Len(invocations) :
          invocations[k1].idx = invocations[k2].idx => k1 = k2
    /\ \A name \in created : CompletesJob(LineAt(IndexOf(name, SuffixOf(name))))
    /\ ScriptDone =>
          \A p \in 0..(Len(lines) - 1) :
              CompletesJob(LineAt(p)) =>
                  \E k \in 1..Len(invocations) : invocations[k].idx = p

C3_FindPrevFrame ==
    fp_result # NotCalled =>
        /\ ~fp_result.raised
        /\ fp_result.path = GreatestBelow(ImageIndices(fp_files), fp_idx)
        /\ fp_result.path = None <=> \A i \in ImageIndices(fp_files) : i >= fp_idx

\* step 3 of a folder with the images 0, 2 and 4 resolved to image 2
C3_Witness ==
    /\ fp_idx = 3
    /\ ImageIndices(fp_files) = {0, 2, 4}
    /\ fp_result = [raised |-> FALSE, path |-> <<"out", "2", ".png">>]

\* C4: a job the generator ends with a non-zero exit code is the last thing
\* the run does: exit code 2, nothing copied for its index, no later line
\* read, no further invocation, no merge
C4_FailedJobAborts ==
    \A k \in 1..Len(invocations) :
        LET inv == invocations[k]
        IN  inv.ret \notin {0, -1} =>
                /\ k = Len(invocations)
                /\ pc = "done"
                /\ exit_code = 2
                /\ raised = "none"
                /\ Len(lines) = inv.idx + 1
                /\ \A name \in created : IndexOf(name, SuffixOf(name)) # inv.idx
                /\ audio_path = "unset"
                /\ manifest = <<>>
                /\ ~manifest_exists

\* a job failed after another one had succeeded
C4_Witness ==
    /\ Len(invocations) >= 2
    /\ invocations[Len(invocations)].ret = 1
    /\ exit_code = 2

\* the clip a manifest line names: "file <folder>/<clip>\n"
ClipOfManifestLine(ml) == SubSeq(ml, 5, Len(ml) - 1)

\* C5: the manifest lists every per-step clip of the folder exactly once, in
\* strictly ascending order of the number in the clip's name
C5_ManifestSorted ==
    (fp_manifest # NotWritten /\ ~fp_manifest.raised) =>
        LET clips == {f \in fp_files :
                         /\ SuffixOf(f) = OUTPUT_VIDEO_SUFFIX
                         /\ f # FinalName}
            ml == fp_manifest.lines
        IN  /\ Len(ml) = Cardinality(clips)
            /\ {ClipOfManifestLine(ml[i]) : i \in 1..Len(ml)} = clips
            /\ \A i, j \in 1..Len(ml) :
                  i < j => IndexOf(ClipOfManifestLine(ml[i]), OUTPUT_VIDEO_SUFFIX)
                               < IndexOf(ClipOfManifestLine(ml[j]), OUTPUT_VIDEO_SUFFIX)

\* the clips 2, 9 and 10 were listed as 2, 9, 10
C5_Witness ==
    /\ fp_manifest # NotWritten
    /\ ~fp_manifest.raised
    /\ Len(fp_manifest.lines) = 3
    /\ ClipOfManifestLine(fp_manifest.lines[1]) = <<"out", "2", ".mp4">>
    /\ ClipOfManifestLine(fp_manifest.lines[2]) = <<"out", "9", ".mp4">>
    /\ ClipOfManifestLine(fp_manifest.lines[3]) = <<"out", "1", "0", ".mp4">>

\* the content of the last GLOBAL: line among the first n physical lines
RECURSIVE GlobalInForce(_)
GlobalInForce(n) ==
    IF n = 0 THEN <<>>
    ELSE IF IsGlobalLine(LineAt(n - 1)) THEN Tail(LineAt(n - 1))
         ELSE GlobalInForce(n - 1)

\* C6: the standing global string is the content of the last GLOBAL: line seen
\* (empty before the first), and every invocation carries, right after the
\* base invocation, exactly the one in force at its line
C6_GlobalInForce ==
    /\ pc \in {"loop", "run"} => cmd_root = cmd_base \o GlobalInForce(Len(lines))
    /\ \A k \in 1..Len(invocations) :
          LET inv == invocations[k]
              global == GlobalInForce(inv.idx + 1)
          IN  /\ SubSeq(inv.cmd, 1, Len(cmd_base) + Len(global)) = cmd_base \o global
              /\ SubSeq(inv.cmd, Len(cmd_base) + Len(global) + 1, Len(inv.cmd))
                    = inv.args \o (IF inv.seed = None THEN <<>>
                                   ELSE <<" ", "-ii", " ", "out", "/">> \o inv.seed)

\* a job line ran after two different GLOBAL: lines and carries the second one
C6_Witness ==
    \E k \in 1..Len(invocations) :
        LET inv == invocations[k]
        IN  /\ CompletesJob(LineAt(inv.idx))
            /\ inv.idx = 2
            /\ IsGlobalLine(LineAt(0))
            /\ IsGlobalLine(LineAt(1))
            /\ LineAt(0) # LineAt(1)
            /\ inv.ret = 0

\* C7: every artifact the run added carries the position, among all physical
\* lines, of the line a generator invocation ended by, and that invocation
\* exited with 0
C7_ArtifactIndexIsLinePosition ==
    \A name \in created :
        LET p == IndexOf(name, SuffixOf(name))
        IN  /\ ReMatch(name, SuffixOf(name)) # None
            /\ p < Len(lines)
            /\ \E k \in 1..Len(invocations) :
                  LET inv == invocations[k]
                      text == LineAt(p)
                  IN  /\ inv.ret = 0
                      /\ inv.idx = p
                      /\ Len(inv.args) >= Len(text)
                      /\ SubSeq(inv.args, Len(inv.args) - Len(text) + 1,
                                Len(inv.args)) = text

\* a job that follows a comment and a blank line got the artifacts of index 2
C7_Witness ==
    /\ Len(lines) = 3
    /\ LineAt(0) = <<"#", "x">>
    /\ LineAt(1) = <<>>
    /\ CompletesJob(LineAt(2))
    /\ created = {<<"out", "2", ".png">>, <<"out", "2", ".mp4">>}

\* the words of a string: its maximal runs of atoms other than whitespace
RECURSIVE Word(_)
Word(s) ==
    IF s = <<>> \/ Head(s) \in Whitespace THEN <<>>
    ELSE <<Head(s)>> \o Word(Tail(s))

RECURSIVE Tokens(_)
Tokens(s) ==
    LET t == LStrip(s)
    IN  IF t = <<>> THEN <<>>
        ELSE <<Word(t)>> \o Tokens(SubSeq(t, Len(Word(t)) + 1, Len(t)))

\* the number a word spells, -1 when it spells none
Number(w) ==
    IF w # <<>> /\ DigitPrefix(w) = w THEN ParseInt(w) ELSE -1

\* C8: str(job) is the base invocation, the accumulated options, -i with
\* frame_rate * video_len_s * save_every_freq, -se, -vl, then -ii and the seed
\* exactly when a seed is set, then -s width height
C8_RenderOrder ==
    rendered # NotRendered =>
        LET j == rendered.job
            t == Tokens(rendered.string)
            n == Len(Tokens(CMD_BASE)) + Len(Tokens(j.cmd_string))
            seeded == j.initial_frame_path # None
            m == IF seeded THEN n + 8 ELSE n + 6
        IN  /\ Len(t) = m + 3
            /\ SubSeq(t, 1, n) = Tokens(CMD_BASE) \o Tokens(j.cmd_string)
            /\ t[n + 1] = <<"-i">>
            /\ Number(t[n + 2]) = j.frame_rate * j.video_len_s * j.save_every_freq
            /\ t[n + 3] = <<"-se">>
            /\ Number(t[n + 4]) = j.save_every_freq
            /\ t[n + 5] = <<"-vl">>
            /\ Number(t[n + 6]) = j.video_len_s
            /\ seeded => t[n + 7] = <<"-ii">> /\ t[n + 8] = j.initial_frame_path
            /\ ~seeded => \A i \in (n + 1)..Len(t) : t[i] # <<"-ii">>
            /\ t[m + 1] = <<"-s">>
            /\ Number(t[m + 2]) = j.dimensions[1]
            /\ Number(t[m + 3]) = j.dimensions[2]

\* a job with options, a seed and a configuration was rendered
C8_Witness ==
    /\ rendered # NotRendered
    /\ rendered.job.initial_frame_path # None
    /\ rendered.job.cmd_string = <<"foo", " ", "--x", " ", "--bar", " ", "-p">>
    /\ rendered.job.dimensions = <<64, 48>>

\* word k and the ones after it are the flag and its values
HasFlag(t, flag, values) ==
    \E k \in 1..Len(t) :
        /\ t[k] = <<flag>>
        /\ k + Len(values) <= Len(t)
        /\ \A v \in 1..Len(values) : Number(t[k + v]) = values[v]

\* C9: the invocation executed for a line that starts with a duration carries
\* that duration, the iteration count, the save frequency and the dimensions
\* of the loaded configuration
C9_InvocationIsRenderedJob ==
    \A k \in 1..Len(invocations) :
        LET inv == invocations[k]
            t == Tokens(inv.cmd)
            n == DigitPrefix(Strip(inv.args))
        IN  n # <<>> =>
               /\ HasFlag(t, "-vl", <<ParseInt(n)>>)
               /\ HasFlag(t, "-i", <<config.frame_rate * ParseInt(n)
                                         * config.save_every_freq>>)
               /\ HasFlag(t, "-se", <<config.save_every_freq>>)
               /\ HasFlag(t, "-s", <<config.width, config.height>>)

\* C10: when the audio mux fails after the concatenation succeeded, no file is
\* left at the final output path
C10_NoFinalAfterFailedMerge ==
    (pc = "done" /\ Len(ffmpeg_rets) = 2 /\ ffmpeg_rets[2] # 0) =>
        FinalName \notin files

\* the clips of the steps: the files named <output_name><digits>.mp4
StepClips(fs) ==
    {f \in fs : \E ds \in {DigitPrefix(Tail(f))} :
                    ds # <<>> /\ f = <<output_name>> \o ds \o <<OUTPUT_VIDEO_SUFFIX>>}

\* C11: a merge over a folder an earlier merge ran on (whatever that one left:
\* the final output, the temporary audio-mux file) never lists the old final
\* output in its manifest, and, when none of its ffmpeg calls fails, ends with
\* exit code 0, the final output made from exactly the clips of the steps, and
\* no temporary audio-mux file in the folder
C11_RerunMerges ==
    /\ \A i \in 1..Len(manifest) : ClipOfManifestLine(manifest[i]) # FinalName
    /\ (/\ pc = "done"
        /\ audio_path # "unset"
        /\ StepClips(files) # {}
        /\ \A i \in 1..Len(ffmpeg_rets) : ffmpeg_rets[i] = 0) =>
           /\ exit_code = 0
           /\ FinalName \in files
           /\ TmpName \notin files
           /\ {ClipOfManifestLine(manifest[i]) : i \in 1..Len(manifest)}
                 = StepClips(files)

\* C12: add_options_from_config is idempotent: a job that was just given a
\* configuration is left as it is, field by field, when it is given the same
\* configuration once more
C12_ApplyConfigIdempotent ==
    last_call.op = "add_options_from_config" =>
        LET twice == add_options_from_config(job, last_call.cfg)
        IN  /\ twice.frame_rate = job.frame_rate
            /\ twice.dimensions = job.dimensions
            /\ twice.save_every_freq = job.save_every_freq
            /\ twice.cmd_string = job.cmd_string
            /\ Str(twice) = Str(job)

\* p is the beginning of s
IsPrefix(p, s) == Len(p) <= Len(s) /\ SubSeq(s, 1, Len(p)) = p

\* <rest> of the line "<n><rest>": what follows the leading digits
RestOf(line) == SubSeq(line, Len(DigitPrefix(line)) + 1, Len(line))

\* C13: the rendering of a job parsed from the line "<n><rest>" has the words
\* of <rest>, in order, right after the base invocation, and one -vl flag,
\* whose value is n; add_options keeps the words the job had, in their
\* order, before the ones it adds, and changes nothing when its fragment is
\* empty or whitespace
C13_ParseRenderPreserves ==
    /\ rendered # NotRendered =>
          LET t == Tokens(rendered.string)
          IN  /\ IsPrefix(Tokens(CMD_BASE) \o Tokens(RestOf(input_line)), t)
              /\ HasFlag(t, "-vl", <<ParseInt(DigitPrefix(input_line))>>)
              /\ Cardinality({k \in 1..Len(t) : t[k] = <<"-vl">>}) = 1
    /\ last_call.op = "add_options" =>
          /\ Tokens(job.cmd_string) = Tokens(last_call.before.cmd_string)
                                          \o Tokens(last_call.frag)
          /\ Strip(last_call.frag) = <<>> => job = last_call.before

\* the line "05 foo --x" was parsed, given the options "--bar", then a
\* whitespace fragment, and rendered
C13_Witness ==
    /\ input_line = <<"0", "5", " ", "foo", " ", "--x", " ", "\n">>
    /\ last_call.op = "add_options"
    /\ last_call.frag = <<" ">>
    /\ job.cmd_string = <<"foo", " ", "--x", " ", "--bar">>
    /\ rendered # NotRendered
    /\ rendered.job = job

\* C14: the generator is never invoked for a logical line that does not start
\* with a duration (the invocations made for the GLOBAL: lines set aside)
C14_NoDurationNoInvocation ==
    \A k \in 1..Len(invocations) :
        LET logical == Strip(invocations[k].args)
        IN  ~IsGlobalLine(logical) => DigitPrefix(logical) # <<>>

\* C15: a run started on an existing folder without the force flag ends at
\* once with exit code 1: no line read, no invocation, no file of the folder
\* touched, no merge; nothing happens after main has returned; exit code 0
\* comes only after every invocation exited 0 and every ffmpeg call of the
\* merge succeeded, and exit code 2 only after an invocation that failed
C15_ExitCodes ==
    [][/\ pc # "done"
       /\ (pc = "start" /\ folder_exists /\ ~force) =>
              /\ pc' = "done"
              /\ exit_code' = 1
              /\ raised' = "none"
              /\ files' = files
              /\ lines' = <<>>
              /\ invocations' = <<>>
              /\ created' = {}
              /\ running' = {}
              /\ audio_path' = "unset"
              /\ manifest' = <<>>
              /\ ~manifest_exists'
              /\ ffmpeg_rets' = <<>>
       /\ exit_code' = 0 =>
              /\ pc' = "done"
              /\ raised' = "none"
              /\ \A k \in 1..Len(invocations') : invocations'[k].ret = 0
              /\ audio_path' # "unset"
              /\ Len(ffmpeg_rets') = (IF audio_path' = "given" THEN 2 ELSE 1)
              /\ \A i \in 1..Len(ffmpeg_rets') : ffmpeg_rets'[i] = 0
              /\ FinalName \in files'
       /\ exit_code' = 2 =>
              /\ pc' = "done"
              /\ raised' = "none"
              /\ invocations' # <<>>
              /\ invocations'[Len(invocations')].ret \notin {0, -1}
              /\ audio_path' = "unset"
      ]_vars

\* a run was refused on a folder that holds artifacts
C15_Witness ==
    /\ pc = "done"
    /\ exit_code = 1
    /\ raised = "none"
    /\ ~force
    /\ folder_exists
    /\ files # {}
    /\ lines = <<>>

\* C16: once the concatenation call has ended, with success or with an error,
\* and merge has ended, the temporary manifest file does not exist
C16_ManifestDeleted ==
    (pc = "done" /\ ffmpeg_rets # <<>>) => ~manifest_exists

\* a name that is, as a whole, <output_name><digits><suffix>
StrictName(f, suffix) ==
    LET ds == DigitPrefix(Tail(f))
    IN  ds # <<>> /\ f = <<output_name>> \o ds \o <<suffix>>

\* C17: when a file the image glob lists is not strictly named, find_prev_frame
\* fails; when a file the clip glob lists is not strictly named, the listing
\* of the clips fails, and a manifest that is written never holds two clips of
\* one index
C17_StrictNames ==
    /\ fp_result # NotCalled =>
          ((\E f \in Glob(fp_files, OUTPUT_IMAGE_SUFFIX) :
                 ~StrictName(f, OUTPUT_IMAGE_SUFFIX)) => fp_result.raised)
    /\ fp_manifest # NotWritten =>
          /\ (\E f \in Glob(fp_files, OUTPUT_VIDEO_SUFFIX) :
                 ~StrictName(f, OUTPUT_VIDEO_SUFFIX)) => fp_manifest.raised
          /\ \A i, j \in 1..Len(fp_manifest.lines) :
                i # j => IndexOf(ClipOfManifestLine(fp_manifest.lines[i]),
                                 OUTPUT_VIDEO_SUFFIX)
                           # IndexOf(ClipOfManifestLine(fp_manifest.lines[j]),
                                     OUTPUT_VIDEO_SUFFIX)

\* the words the physical lines first..last give to a job: the words of the
\* lines that are not blank, no comment and no GLOBAL: directive, in order,
\* the continuation marker taken off
RECURSIVE JobWords(_, _)
JobWords(first, last) ==
    IF first > last THEN <<>>
    ELSE LET line == LineAt(last)
             text == IF IsContinued(line) THEN SubSeq(line, 1, Len(line) - 1)
                     ELSE line
         IN  JobWords(first, last - 1)
                \o (IF IsBlankOrComment(line) \/ IsGlobalLine(line) THEN <<>>
                    ELSE Tokens(text))

\* C18: the buffer is empty when the loop starts and after every emission; a
\* continued line emits nothing; the command text of an invocation that
\* completes a job is made of the words of the job's own physical lines, those
\* read since the invocation before it, in order, and of nothing else: no word
\* of a GLOBAL: line, of a comment or of another job
C18_Accumulation ==
    /\ lines = <<>> => args = <<>>
    /\ (pc = "loop" /\ lines # <<>> /\ ~IsContinued(LineAt(Len(lines) - 1))
           /\ ~IsBlankOrComment(LineAt(Len(lines) - 1))) => args = <<>>
    /\ \A k \in 1..Len(invocations) :
          LET inv == invocations[k]
              first == IF k = 1 THEN 0 ELSE invocations[k - 1].idx + 1
          IN  /\ ~IsContinued(LineAt(inv.idx))
              /\ JobWords(first, inv.idx) # <<>> =>
                    Tokens(inv.args) = JobWords(first, inv.idx)

\* the image and the clip of every invocation made so far are copied and hold
\* the output of the invocation's own step
AllCopied ==
    \A k \in 1..Len(invocations) :
        /\ invocations[k].ret = 0
        /\ {ImgDst(invocations[k].idx), VidDst(invocations[k].idx)} \subseteq files
        /\ holds[ImgDst(invocations[k].idx)] = invocations[k].idx
        /\ holds[VidDst(invocations[k].idx)] = invocations[k].idx

\* C19: a child process is started only when no child is running, so that
\* never two run at a time; the generator is started for a line only when
\* every invocation before it has ended with 0 and its two outputs are copied
\* under its own step; the first ffmpeg call is started only when the script is
\* read to its end and the same holds of every invocation; the second follows
\* the end of the first
C19_Sequential ==
    [][/\ Cardinality(running') <= 1
       /\ \A p \in running' \ running :
             /\ running' = {p}
             /\ p.kind = "generator" =>
                   /\ running = {}
                   /\ p.step = Len(lines') - 1
                   /\ AllCopied
             /\ p = Ffmpeg(1) =>
                   /\ running = {}
                   /\ pc = "loop"
                   /\ AllCopied
             /\ p = Ffmpeg(2) =>
                   /\ running = {Ffmpeg(1)}
                   /\ ffmpeg_rets' = <<0>>
                   /\ AllCopied
       /\ pc' \in {"loop", "done"} => running' = {}
      ]_vars

\* two jobs ran one after the other and the audio mux of the merge is running
C19_Witness ==
    /\ Len(invocations) = 2
    /\ Cardinality(created) = 4
    /\ running = {Ffmpeg(2)}
    /\ ffmpeg_rets = <<0>>

\* C20: a job that is not the first one the run executes is seeded with the
\* image the run copied for the job executed just before it, which holds that
\* job's output; the first one is seeded from the folder as it was found, with
\* an image of an earlier run or with nothing; the step of a seed is always
\* below the step of the job it seeds
C20_SeedChain ==
    \A k \in 1..Len(invocations) :
        LET inv == invocations[k]
        IN  /\ k > 1 =>
                 /\ invocations[k - 1].ret = 0
                 /\ inv.seed = ImgDst(invocations[k - 1].idx)
                 /\ inv.seed \in created
                 /\ holds[inv.seed] = invocations[k - 1].idx
            /\ k = 1 =>
                 \/ inv.seed = None
                 \/ /\ inv.seed \notin created
                    /\ StrictName(inv.seed, OUTPUT_IMAGE_SUFFIX)
                    /\ IndexOf(inv.seed, OUTPUT_IMAGE_SUFFIX) \in inv.imgs
            /\ inv.seed # None =>
                 IndexOf(inv.seed, OUTPUT_IMAGE_SUFFIX) < inv.idx

\* the first job was seeded with an image of an earlier run and the second one
\* with the image the run copied for the first
C20_Witness ==
    /\ Len(invocations) = 2
    /\ invocations[1].seed = <<"out", "0", ".png">>
    /\ invocations[1].idx = 1
    /\ invocations[2].seed = <<"out", "1", ".png">>
    /\ invocations[2].idx = 2
    /\ invocations[2].ret = 0

====
